---------------------------- MODULE Spec2Model ----------------------------
(***************************************************************************)
(* Model of the shrink engine of claude-mem:                               *)
(*   - ShrinkAnalyzer.analyze / calculateImportanceScore / estimateTokens  *)
(*     / generateReasons / executeShrink                                   *)
(*       (src/src/services/worker/ShrinkAnalyzer.ts)                       *)
(*   - the shrink dialog and the requests it sends                         *)
(*       (src/src/ui/viewer/hooks/useProjectExclusion.ts, ShrinkModal)     *)
(*   - project exclusion: useProjectExclusion, the Projects modal and      *)
(*     isProjectExcluded                                                   *)
(*   - the timeline query of the retrieval service                         *)
(*                                                                         *)
(* Numbers.  JavaScript numbers are modelled as exact rationals with the   *)
(* special values NaN and -Infinity kept apart.  A score is a numerator    *)
(* over the denominator ScoreDen(maxAgeMs); floating-point rounding is not *)
(* modelled.  Time is counted in ticks, TicksPerDay ticks to the day, so   *)
(* that 24*60*60*1000 ms is DayMs ticks.                                   *)
(***************************************************************************)
EXTENDS Integers, Sequences, FiniteSets, TLC

(***************************************************************************)
(* Bounds of the model.                                                    *)
(***************************************************************************)
TicksPerDay == 2
\* rows ever inserted into the table
MaxObs == 3
\* catalog entries the ingestion path of Spec inserts
IngestKinds == 1
\* times the clock of Spec advances
MaxClock == 1
\* identifiers in one execute request
MaxIds == 2

DayMs == TicksPerDay

Min(a, b) == IF a < b THEN a ELSE b
Max(a, b) == IF a > b THEN a ELSE b

(***************************************************************************)
(* JavaScript values.                                                      *)
(***************************************************************************)
\* a finite number n (the unit depends on the place: tenths for a weight,
\* 1/ScoreDen for a score)
Num(n) == [k |-> "num", n |-> n]
NaN == [k |-> "nan", n |-> 0]
NegInfinity == [k |-> "-inf", n |-> 0]
\* a value that is not a number: a member inherited from Object.prototype
ObjectValue == [k |-> "obj", n |-> 0]
Undefined == [k |-> "undefined", n |-> 0]

\* a nullable string column, known by its length
NullText == [null |-> TRUE, len |-> 0]
Text(len) == [null |-> FALSE, len |-> len]
\* if (s): null and the empty string are falsy
Truthy(s) == ~s.null /\ s.len > 0

\* JSON.stringify of a list of strings: brackets, quotes and commas
RECURSIVE SumLen(_)
SumLen(items) ==
    IF items = <<>> THEN 0 ELSE Len(Head(items)) + 2 + SumLen(Tail(items))
JsonListLen(items) ==
    2 + SumLen(items) + (IF Len(items) > 1 THEN Len(items) - 1 ELSE 0)

\* a nullable column holding serialized JSON: what JSON.parse makes of it
\* ("list": an array of strings, "object": the object {}, "error": a
\* SyntaxError) and the length of the stored text
NullJson == [null |-> TRUE, parse |-> "none", items |-> <<>>, len |-> 0]
JsonList(items) ==
    [null |-> FALSE, parse |-> "list", items |-> items, len |-> JsonListLen(items)]
JsonObject == [null |-> FALSE, parse |-> "object", items |-> <<>>, len |-> 2]
Unparseable(len) == [null |-> FALSE, parse |-> "error", items |-> <<>>, len |-> len]

(***************************************************************************)
(* The weight tables, in tenths.                                           *)
(***************************************************************************)
TYPE_WEIGHTS ==
    [decision |-> 10, bugfix |-> 9, feature |-> 8, refactor |-> 7,
     discovery |-> 5, change |-> 4]

CONCEPT_WEIGHTS ==
    ("problem-solution" :> 10) @@ ("trade-off" :> 9) @@ ("why-it-exists" :> 8)
    @@ ("gotcha" :> 8) @@ ("how-it-works" :> 7) @@ ("pattern" :> 6)
    @@ ("what-changed" :> 4)

\* the names every object literal inherits from Object.prototype
PrototypeKeys ==
    {"constructor", "toString", "valueOf", "hasOwnProperty", "__proto__",
     "isPrototypeOf", "propertyIsEnumerable", "toLocaleString"}

\* table[key] on an object literal: own property, else inherited member,
\* else undefined
Lookup(table, key) ==
    IF key \in DOMAIN table THEN Num(table[key])
    ELSE IF key \in PrototypeKeys THEN ObjectValue
    ELSE Undefined

\* v ?? 0.5 (in tenths)
OrHalf(v) == IF v.k = "undefined" THEN Num(5) ELSE v

\* TYPE_WEIGHTS[obs.type] ?? 0.5
typeWeight(type) == OrHalf(Lookup(TYPE_WEIGHTS, type))

\* CONCEPT_WEIGHTS[c] ?? 0.5
conceptWeight(c) == OrHalf(Lookup(CONCEPT_WEIGHTS, c))

\* Math.max(...weights): -Infinity of no argument, NaN as soon as one
\* argument does not convert to a number
RECURSIVE MathMax(_)
MathMax(ws) ==
    IF ws = <<>> THEN NegInfinity
    ELSE LET h == Head(ws)
             r == MathMax(Tail(ws))
         IN  IF h.k # "num" \/ r.k = "nan" THEN NaN
             ELSE IF r.k = "-inf" THEN h
             ELSE Num(Max(h.n, r.n))

(***************************************************************************)
(* Observations.  A row of the observations table:                         *)
(*   [id, project, type, created_at_epoch, title, subtitle, narrative,     *)
(*    facts, concepts]                                                     *)
(***************************************************************************)

\* the denominator of a score computed with maxAgeMs: every term of
\* calculateImportanceScore is a whole number of 1/ScoreDen
ScoreDen(maxAgeMs) == 20000 * maxAgeMs

\* a + b on numbers that may be NaN or -Infinity
JsAdd(a, b) ==
    IF a.k = "nan" \/ b.k = "nan" THEN NaN
    ELSE IF a.k = "-inf" \/ b.k = "-inf" THEN NegInfinity
    ELSE Num(a.n + b.n)

\* (w - 0.5) * factor for a weight w in tenths, factor in tenths, as a
\* number of 1/ScoreDen
WeightTerm(w, factor, maxAgeMs) ==
    IF w.k = "num" THEN Num((w.n - 5) * factor * 200 * maxAgeMs)
    ELSE IF w.k = "-inf" THEN NegInfinity
    ELSE NaN

\* score *= (0.5 + ageDecay * 0.5), ageDecay = Math.max(0, 1 - ageMs/maxAgeMs)
AgeDampen(score, ageMs, maxAgeMs) ==
    IF score.k # "num" THEN score
    ELSE Num((score.n \div (2 * maxAgeMs)) * (maxAgeMs + Max(0, maxAgeMs - ageMs)))

\* the concepts step: the try block, whose catch swallows the SyntaxError
\* of JSON.parse and the TypeError of calling map on a non-array
ConceptTerm(concepts, maxAgeMs) ==
    IF ~Truthy(concepts) THEN Num(0)
    ELSE IF concepts.parse # "list" THEN Num(0)
    ELSE WeightTerm(MathMax([i \in 1..Len(concepts.items) |->
                                conceptWeight(concepts.items[i])]), 2, maxAgeMs)

\* obs.facts ? JSON.parse(obs.facts).length : 0, outside any try block:
\* "throw" for unparseable text, undefined for a value with no length
factsCount(facts) ==
    IF ~Truthy(facts) THEN Num(0)
    ELSE IF facts.parse = "error" THEN [k |-> "throw", n |-> 0]
    ELSE IF facts.parse = "list" THEN Num(Len(facts.items))
    ELSE Undefined

\* obs.narrative?.length ?? 0
narrativeLength(obs) == IF obs.narrative.null THEN 0 ELSE obs.narrative.len

\* contentScore * 0.1, contentScore = Math.min(1, (len/500 + count/5) / 2)
ContentTerm(obs, count, maxAgeMs) ==
    IF count.k # "num" THEN NaN
    ELSE Num(Min(1000, narrativeLength(obs) + 100 * count.n) * 2 * maxAgeMs)

\* Math.max(0, Math.min(1, score))
Clamp(score, maxAgeMs) ==
    IF score.k = "nan" THEN NaN
    ELSE IF score.k = "-inf" THEN Num(0)
    ELSE Num(Max(0, Min(ScoreDen(maxAgeMs), score.n)))

\* the importance score of obs as a number of 1/ScoreDen(maxAgeMs), NaN,
\* or "throw" when the function throws
calculateImportanceScore(obs, now, maxAgeMs) ==
    LET base == Num(10000 * maxAgeMs)
        typed == JsAdd(base, WeightTerm(typeWeight(obs.type), 3, maxAgeMs))
        aged == AgeDampen(typed, now - obs.created_at_epoch, maxAgeMs)
        tagged == JsAdd(aged, ConceptTerm(obs.concepts, maxAgeMs))
        count == factsCount(obs.facts)
    IN  IF count.k = "throw" THEN count
        ELSE Clamp(JsAdd(tagged, ContentTerm(obs, count, maxAgeMs)), maxAgeMs)

\* Math.ceil(text.length / 4), text the truthy fields joined by ' '
estimateTokens_Joined(obs) ==
    LET part(f) == IF Truthy(f) THEN f.len + 1 ELSE 0
        length == part(obs.title) + part(obs.subtitle) + part(obs.narrative)
                  + part(obs.facts) + part(obs.concepts)
    IN  (Max(0, length - 1) + 3) \div 4

\* Math.ceil(text.length / 4), text the truthy fields each followed by ' '
estimateTokens(obs) ==
    LET part(f) == IF Truthy(f) THEN f.len + 1 ELSE 0
        length == part(obs.title) + part(obs.subtitle) + part(obs.narrative)
                  + part(obs.facts) + part(obs.concepts)
    IN  (length + 3) \div 4

\* the reasons, with if (ageDays >= 30)
generateReasons_AgeAtLeast30(obs, score, now, maxAgeMs) ==
    LET ageDays == (now - obs.created_at_epoch) \div DayMs
        tw == typeWeight(obs.type)
    IN  (IF ageDays >= 30 THEN <<[reason |-> "days old", n |-> ageDays]>> ELSE <<>>)
        \o (IF tw.k = "num" /\ tw.n < 6
             THEN <<[reason |-> "Low-priority type", n |-> 0]>> ELSE <<>>)
        \o (IF narrativeLength(obs) < 50
             THEN <<[reason |-> "Minimal content", n |-> 0]>> ELSE <<>>)
        \o (IF score.n * 5 < ScoreDen(maxAgeMs)
             THEN <<[reason |-> "Very low importance score", n |-> 0]>> ELSE <<>>)

\* the reasons, each a record [reason, n]: n the days of "<n> days old"
generateReasons(obs, score, now, maxAgeMs) ==
    LET ageDays == (now - obs.created_at_epoch) \div DayMs
        tw == typeWeight(obs.type)
    IN  (IF ageDays > 30 THEN <<[reason |-> "days old", n |-> ageDays]>> ELSE <<>>)
        \o (IF tw.k = "num" /\ tw.n < 6
             THEN <<[reason |-> "Low-priority type", n |-> 0]>> ELSE <<>>)
        \o (IF narrativeLength(obs) < 50
             THEN <<[reason |-> "Minimal content", n |-> 0]>> ELSE <<>>)
        \o (IF score.n * 5 < ScoreDen(maxAgeMs)
             THEN <<[reason |-> "Very low importance score", n |-> 0]>> ELSE <<>>)

(***************************************************************************)
(* analyze.  Options: [project, targetReduction, minAge, maxAge, minScore] *)
(* with project "" for none, targetReduction and minScore in hundredths,   *)
(* minAge and maxAge in days.                                              *)
(***************************************************************************)

\* the defaults of the destructuring at the head of analyze
DefaultOptions ==
    [project |-> "", targetReduction |-> 30, minAge |-> 7, maxAge |-> 180,
     minScore |-> 60]

\* WHERE created_at_epoch <= ? [AND project = ?]
Eligible_Inclusive(obs, now, opts) ==
    /\ obs.created_at_epoch <= now - opts.minAge * DayMs
    /\ (opts.project # "" => obs.project = opts.project)

\* WHERE created_at_epoch < ? [AND project = ?]
Eligible(obs, now, opts) ==
    /\ obs.created_at_epoch < now - opts.minAge * DayMs
    /\ (opts.project # "" => obs.project = opts.project)

\* the rows the SELECT may return: the eligible rows ORDER BY
\* created_at_epoch ASC, rows of equal creation time in any order
ScanOrders(rows, now, opts) ==
    LET el == {o \in rows : Eligible(o, now, opts)}
        n == Cardinality(el)
    IN  {s \in [1..n -> el] :
            /\ \A i, j \in 1..n : i # j => s[i] # s[j]
            /\ \A i, j \in 1..n :
                  i < j => s[i].created_at_epoch <= s[j].created_at_epoch}

\* SELECT COUNT(*) FROM observations [WHERE project = ?]
TotalCount(rows, opts) ==
    Cardinality({o \in rows : opts.project # "" => o.project = opts.project})

\* if (score <= minScore)
BelowMinScore_OrEqual(score, opts) ==
    score.k = "num" /\ score.n * 100 <= opts.minScore * ScoreDen(opts.maxAge * DayMs)

\* if (score < minScore): false for NaN
BelowMinScore(score, opts) ==
    score.k = "num" /\ score.n * 100 < opts.minScore * ScoreDen(opts.maxAge * DayMs)

\* a sort that puts an element before those of equal score
RECURSIVE SortByScore_TiesReversed(_)
SortByScore_TiesReversed(cs) ==
    IF cs = <<>> THEN <<>>
    ELSE LET front == SortByScore_TiesReversed(SubSeq(cs, 1, Len(cs) - 1))
             c == cs[Len(cs)]
             k == Cardinality({i \in 1..Len(front) : front[i].score < c.score})
         IN  SubSeq(front, 1, k) \o <<c>> \o SubSeq(front, k + 1, Len(front))

\* candidates.sort((a, b) => a.score - b.score): a stable sort, here by
\* insertion of each element after those that do not score higher
RECURSIVE SortByScore(_)
SortByScore(cs) ==
    IF cs = <<>> THEN <<>>
    ELSE LET front == SortByScore(SubSeq(cs, 1, Len(cs) - 1))
             c == cs[Len(cs)]
             k == Cardinality({i \in 1..Len(front) : front[i].score <= c.score})
         IN  SubSeq(front, 1, k) \o <<c>> \o SubSeq(front, k + 1, Len(front))

\* Math.max(1, Math.floor(totalObservations * targetReduction))
targetCount(totalObservations, opts) ==
    Max(1, (totalObservations * opts.targetReduction) \div 100)

\* candidates.slice(0, targetCount)
Truncate(cs, count) == SubSeq(cs, 1, Min(count, Len(cs)))

RECURSIVE SumTokens(_)
\* reduce((sum, c) => sum + c.tokenCount, 0)
SumTokens(cs) ==
    IF cs = <<>> THEN 0 ELSE Head(cs).tokenCount + SumTokens(Tail(cs))

\* finalCandidates.reduce(...) summed over every candidate
totalTokensSaved_All(candidates, finalCandidates) == SumTokens(candidates)

\* finalCandidates.reduce(...): the sum runs over the truncated list
totalTokensSaved(candidates, finalCandidates) == SumTokens(finalCandidates)

\* the candidate pushed for obs
Candidate(obs, score, now, maxAgeMs) ==
    [id |-> obs.id, title |-> obs.title, type |-> obs.type, project |-> obs.project,
     created_at_epoch |-> obs.created_at_epoch, score |-> score.n,
     reasons |-> generateReasons(obs, score, now, maxAgeMs),
     tokenCount |-> estimateTokens(obs)]

\* analyze with the quota taken from the number of rows the SELECT returned
analyze_QuotaFromScan(rows, scan, now, opts) ==
    LET maxAgeMs == opts.maxAge * DayMs
        scores == [i \in 1..Len(scan) |-> calculateImportanceScore(scan[i], now, maxAgeMs)]
        totalObservations == Len(scan)
        below == SelectSeq([i \in 1..Len(scan) |-> i],
                           LAMBDA i : BelowMinScore(scores[i], opts))
        candidates == [j \in 1..Len(below) |->
                          Candidate(scan[below[j]], scores[below[j]], now, maxAgeMs)]
        sorted == SortByScore(candidates)
        finalCandidates == Truncate(sorted, targetCount(totalObservations, opts))
    IN  IF \E i \in 1..Len(scan) : scores[i].k = "throw"
        THEN [status |-> "threw", opts |-> opts, now |-> now, scan |-> scan]
        ELSE [status |-> "ok", opts |-> opts, now |-> now, scan |-> scan,
              scores |-> scores,
              candidates |-> finalCandidates,
              totalTokensSaved |-> totalTokensSaved(sorted, finalCandidates),
              observationsToRemove |-> Len(finalCandidates),
              totalObservations |-> totalObservations]

\* analyze(options) at time now over the table rows, the SELECT having
\* returned scan.  The result also records the options, now, the scan and
\* the score computed for each scanned row.
analyze(rows, scan, now, opts) ==
    LET maxAgeMs == opts.maxAge * DayMs
        scores == [i \in 1..Len(scan) |-> calculateImportanceScore(scan[i], now, maxAgeMs)]
        totalObservations == TotalCount(rows, opts)
        below == SelectSeq([i \in 1..Len(scan) |-> i],
                           LAMBDA i : BelowMinScore(scores[i], opts))
        candidates == [j \in 1..Len(below) |->
                          Candidate(scan[below[j]], scores[below[j]], now, maxAgeMs)]
        sorted == SortByScore(candidates)
        finalCandidates == Truncate(sorted, targetCount(totalObservations, opts))
    IN  IF \E i \in 1..Len(scan) : scores[i].k = "throw"
        THEN [status |-> "threw", opts |-> opts, now |-> now, scan |-> scan]
        ELSE [status |-> "ok", opts |-> opts, now |-> now, scan |-> scan,
              scores |-> scores,
              candidates |-> finalCandidates,
              totalTokensSaved |-> totalTokensSaved(sorted, finalCandidates),
              observationsToRemove |-> Len(finalCandidates),
              totalObservations |-> totalObservations]

NoAnalysis == [status |-> "none"]

(***************************************************************************)
(* The state.                                                              *)
(***************************************************************************)
VARIABLES
    store,          \* the observations table: a set of rows
    nextId,         \* the next identifier the table assigns
    now,            \* Date.now(), in ticks
    analysis,       \* what the last analyze call returned
    summaries,      \* the replacement summary records written by a shrink
    gone,           \* history: the identifiers another writer deleted
    pc,             \* executeShrink: "idle", or "loop" while a call runs
    observationIds, \* its argument
    mode,           \* the mode of the request that called it
    idx,            \* the position of the for loop in observationIds
    deleted,        \* its counters
    failed,
    attempts,       \* history: the identifier of every deleteObservationById
                    \* call and whether the row was there
    result,         \* what the last call returned
    shrinkModalOpen,  \* App: whether the shrink dialog is open
    currentFilter,    \* App: the project filter, "" for all projects
    modal,            \* the state of ShrinkModal: [step, mode, targetReduction,
                      \* minAge, analysis, selectedIds, isLoading, result, error]
    net,              \* the requests and responses in flight between the
                      \* dialog and the worker
    sentCount,        \* history: the number of requests the dialog sent
    hist,             \* history: [startedHere, lastReceived]
    projectsModalOpen, \* App: whether the Projects modal is open
    excludedProjects, \* useProjectExclusion: the set the Projects modal shows
    localStorage,     \* the item claude-mem-excluded-projects
    settings,         \* the setting CLAUDE_MEM_EXCLUDED_PROJECTS of the
                      \* settings file, as its comma-separated entries
    stream,           \* the observations, sessions and prompts of the store
    window            \* what the last timeline call returned

execVars == <<pc, observationIds, mode, idx, deleted, failed, attempts, result>>
dialogVars == <<shrinkModalOpen, currentFilter, modal, sentCount, hist>>
exclusionVars == <<projectsModalOpen, excludedProjects, localStorage, settings>>
timelineVars == <<stream, window>>
coreVars == <<store, nextId, now, analysis, summaries, gone>>
\* the variables the shrink engine's own steps leave alone
otherVars == <<dialogVars, exclusionVars, timelineVars>>

vars ==
    <<store, nextId, now, analysis, summaries, gone, pc, observationIds, mode, idx,
      deleted, failed, attempts, result, shrinkModalOpen, currentFilter, modal, net,
      sentCount, hist, projectsModalOpen, excludedProjects, localStorage, settings, stream,
      window>>

(***************************************************************************)
(* Stored content the model draws from.  Each entry is a row without its   *)
(* identifier, with its age in ticks in place of its creation time.        *)
(***************************************************************************)
Entry(type, project, age, title, narrative, facts, concepts) ==
    [type |-> type, project |-> project, age |-> age, title |-> title,
     subtitle |-> NullText, narrative |-> narrative, facts |-> facts,
     concepts |-> concepts]

Catalog ==
    << \* an old change with a short narrative: scores 0.237 with the defaults
       Entry("change", "p1", 400 * DayMs, Text(5), Text(20), NullJson, NullJson),
       \* a recent, rich decision
       Entry("decision", "p1", 7 * DayMs + 1, Text(8), Text(600),
             JsonList(<<"a", "b", "c", "d", "e">>), JsonList(<<"problem-solution">>)),
       \* created exactly 7 days ago
       Entry("discovery", "p1", 7 * DayMs, NullText, NullText, NullJson, NullJson),
       \* an empty list of concepts
       Entry("discovery", "p2", 400 * DayMs, Text(3), Text(60), NullJson, JsonList(<<>>)),
       \* a category that names a member of Object.prototype
       Entry("constructor", "p1", 31 * DayMs, Text(4), Text(10), NullJson, NullJson),
       \* facts that do not parse
       Entry("bugfix", "p1", 31 * DayMs, Text(4), Text(10), Unparseable(8), NullJson),
       \* an unknown category, concepts that do not parse
       Entry("note", "p2", 31 * DayMs + 1, Text(3), NullText, NullJson, Unparseable(8)),
       \* several concepts, some facts, 30 whole days old: scores 0.59
       Entry("feature", "p1", 30 * DayMs + 1, Text(12), Text(100),
             JsonList(<<"x", "y">>), JsonList(<<"what-changed", "pattern">>)),
       \* an old discovery with nothing in it (its title the empty string):
       \* scores exactly 0.25
       Entry("discovery", "p1", 400 * DayMs, Text(0), NullText, NullJson, NullJson),
       \* facts and concepts that parse to an object
       Entry("refactor", "p1", 200 * DayMs, Text(6), Text(40), JsonObject, JsonObject),
       \* a young observation
       Entry("change", "p1", 3 * DayMs, Text(5), Text(20), NullJson, NullJson),
       \* an unknown concept and one that names a member of Object.prototype
       Entry("refactor", "p2", 31 * DayMs, Text(6), Text(40), NullJson,
             JsonList(<<"misc", "constructor">>)) >>

\* the row made of a catalog entry, with identifier id, at time t
Row(e, id, t) ==
    [id |-> id, project |-> e.project, type |-> e.type,
     created_at_epoch |-> t - e.age, title |-> e.title, subtitle |-> e.subtitle,
     narrative |-> e.narrative, facts |-> e.facts, concepts |-> e.concepts]

\* the row a catalog entry makes when it is inserted at time t
NewRow(e, id, t) == [Row(e, id, t) EXCEPT !.created_at_epoch = t]

Ids(rows) == {o.id : o \in rows}
Range(seq) == {seq[i] : i \in 1..Len(seq)}

(***************************************************************************)
(* The store's point delete (SessionStore.deleteObservationById): removes  *)
(* the row with the identifier and tells whether there was one.            *)
(***************************************************************************)
deleteObservationById(rows, id) ==
    [success |-> id \in Ids(rows), rows |-> {o \in rows : o.id # id}]

(***************************************************************************)
(* Actions.                                                                *)
(***************************************************************************)
NoResult == [status |-> "none"]

ExecIdle ==
    /\ pc = "idle" /\ observationIds = <<>> /\ mode = "delete" /\ idx = 1
    /\ deleted = 0 /\ failed = 0 /\ attempts = <<>>

\* the dialog as mounted: closed, its state the useState initial values
ModalInitial ==
    [step |-> "config", mode |-> "delete", targetReduction |-> 30, minAge |-> 30,
     analysis |-> NoAnalysis, selectedIds |-> {}, isLoading |-> FALSE,
     result |-> NoResult, error |-> "null"]

DialogIdle ==
    /\ shrinkModalOpen = FALSE /\ currentFilter = ""
    /\ modal = ModalInitial
    /\ net = {} /\ sentCount = 0
    /\ hist = [startedHere |-> FALSE, lastReceived |-> NoAnalysis]

ExclusionIdle ==
    /\ projectsModalOpen = FALSE
    /\ excludedProjects = {} /\ localStorage = {} /\ settings = <<>>

TimelineIdle == stream = <<>> /\ window = [status |-> "none"]

Init ==
    /\ store = {} /\ nextId = 1 /\ now = 0
    /\ analysis = NoAnalysis /\ summaries = {} /\ gone = {}
    /\ ExecIdle /\ result = NoResult
    /\ DialogIdle /\ ExclusionIdle /\ TimelineIdle

\* the ingestion path, another writer of the table, inserts a row
Ingest(e) ==
    /\ nextId <= MaxObs
    /\ store' = store \cup {NewRow(e, nextId, now)}
    /\ nextId' = nextId + 1
    /\ UNCHANGED <<now, analysis, summaries, gone, execVars, net, otherVars>>

\* another writer deletes a row
ExternalDelete(id) ==
    /\ id \in Ids(store)
    /\ store' = {o \in store : o.id # id}
    /\ gone' = gone \cup {id}
    /\ UNCHANGED <<nextId, now, analysis, summaries, execVars, net, otherVars>>

\* time passes: a little more than the default minAge
AdvanceClock ==
    /\ now < MaxClock * 8 * DayMs
    /\ now' = now + 8 * DayMs
    /\ UNCHANGED <<store, nextId, analysis, summaries, gone, execVars, net, otherVars>>

\* analyze(opts): a read of the table.  What the caller does with the
\* result (net) is the caller's.
Analyze(opts) ==
    /\ \E scan \in ScanOrders(store, now, opts) :
          analysis' = analyze(store, scan, now, opts)
    /\ UNCHANGED <<store, nextId, now, summaries, gone, execVars, otherVars>>

\* a shrink/execute request {observationIds: ids, mode: m} reaches
\* executeShrink(ids): the counters are set, the loop is entered.  The
\* function has no parameter for the mode.
ExecStart(ids, m) ==
    /\ pc = "idle"
    /\ pc' = "loop"
    /\ observationIds' = ids
    /\ mode' = m
    /\ idx' = 1
    /\ deleted' = 0
    /\ failed' = 0
    /\ attempts' = <<>>
    /\ result' = NoResult
    /\ UNCHANGED <<store, nextId, now, analysis, summaries, gone, otherVars>>

\* one pass of the for loop, stopping at the first failure
ExecStep_Break ==
    /\ pc = "loop"
    /\ idx <= Len(observationIds)
    /\ LET d == deleteObservationById(store, observationIds[idx])
       IN  /\ store' = d.rows
           /\ deleted' = IF d.success THEN deleted + 1 ELSE deleted
           /\ failed' = IF d.success THEN failed ELSE failed + 1
           /\ attempts' = Append(attempts,
                                 [id |-> observationIds[idx], present |-> d.success])
           /\ idx' = IF d.success THEN idx + 1 ELSE Len(observationIds) + 1
    /\ UNCHANGED <<nextId, now, analysis, summaries, gone, pc, observationIds, mode, result,
                   net, otherVars>>

\* one pass of the for loop, counting every identifier as deleted
ExecStep_CountAll ==
    /\ pc = "loop"
    /\ idx <= Len(observationIds)
    /\ LET d == deleteObservationById(store, observationIds[idx])
       IN  /\ store' = d.rows
           /\ deleted' = deleted + 1
           /\ failed' = failed
           /\ attempts' = Append(attempts,
                                 [id |-> observationIds[idx], present |-> d.success])
    /\ idx' = idx + 1
    /\ UNCHANGED <<nextId, now, analysis, summaries, gone, pc, observationIds, mode, result,
                   net, otherVars>>

\* one pass of the for loop of executeShrink
ExecStep ==
    /\ pc = "loop"
    /\ idx <= Len(observationIds)
    /\ LET d == deleteObservationById(store, observationIds[idx])
       IN  /\ store' = d.rows
           /\ deleted' = IF d.success THEN deleted + 1 ELSE deleted
           /\ failed' = IF d.success THEN failed ELSE failed + 1
           /\ attempts' = Append(attempts,
                                 [id |-> observationIds[idx], present |-> d.success])
    /\ idx' = idx + 1
    /\ UNCHANGED <<nextId, now, analysis, summaries, gone, pc, observationIds, mode, result,
                   net, otherVars>>

\* return { deleted, failed }: the caller has the counts, the locals of the
\* call are gone
ExecReturn ==
    /\ pc = "loop"
    /\ idx > Len(observationIds)
    /\ pc' = "idle"
    /\ result' = [status |-> "ok", deleted |-> deleted, failed |-> failed]
    /\ observationIds' = <<>>
    /\ mode' = "delete"
    /\ idx' = 1
    /\ deleted' = 0
    /\ failed' = 0
    /\ attempts' = <<>>
    /\ UNCHANGED <<store, nextId, now, analysis, summaries, gone, otherVars>>

IngestEntries == {Catalog[i] : i \in 1..IngestKinds}
IdSeqs == UNION {[1..n -> 1..(MaxObs + 1)] : n \in 0..MaxIds}
Modes == {"delete", "summarize"}
\* the options of the analyze calls of Spec: the defaults, and a larger quota
RequestOptions == {DefaultOptions, [DefaultOptions EXCEPT !.targetReduction = 70]}

Next ==
    \/ \E e \in IngestEntries : Ingest(e)
    \/ \E id \in Ids(store) : ExternalDelete(id)
    \/ AdvanceClock
    \/ \E opts \in RequestOptions : Analyze(opts) /\ UNCHANGED net
    \/ \E ids \in IdSeqs, m \in Modes : ExecStart(ids, m) /\ UNCHANGED net
    \/ ExecStep
    \/ ExecReturn /\ UNCHANGED net

Spec == Init /\ [][Next]_vars

(***************************************************************************)
(* analyze as a function of the table, the time and the options: the       *)
(* table is drawn from the catalog, and analyze is called on it.           *)
(***************************************************************************)
OptionSet ==
    [project : {"", "p1"}, targetReduction : {30, 70}, minAge : {7, 30},
     maxAge : {180}, minScore : {60, 25}]

InitAnalyze ==
    /\ now = 401 * DayMs
    /\ \E n \in 0..MaxObs : \E f \in [1..n -> 1..Len(Catalog)] :
          /\ store = {Row(Catalog[f[i]], i, now) : i \in 1..n}
          /\ nextId = n + 1
    /\ analysis = NoAnalysis /\ summaries = {} /\ gone = {}
    /\ ExecIdle /\ result = NoResult
    /\ DialogIdle /\ ExclusionIdle /\ TimelineIdle

\* analyze is applied once to each table
NextAnalyze ==
    analysis = NoAnalysis /\ \E opts \in OptionSet : Analyze(opts) /\ UNCHANGED net

SpecAnalyze == InitAnalyze /\ [][NextAnalyze]_vars

(***************************************************************************)
(* Properties of executeShrink (checked under Spec).                       *)
(***************************************************************************)
Absent(as) == {i \in 1..Len(as) : ~as[i].present}

\* C1: for every sequence of identifiers passed to execute (duplicates,
\* identifiers that never existed and identifiers deleted earlier
\* included) every identifier is attempted exactly once and in order, a
\* failed attempt is followed by the remaining attempts, an identifier
\* absent at its attempt is counted in failed, the call can always go on
\* to return, and it returns counts with deleted + failed = len(ids).
C1_EveryIdAttemptedAndCounted ==
    /\ [](pc = "loop" =>
            /\ Len(attempts) = idx - 1
            /\ idx <= Len(observationIds) + 1
            /\ \A i \in 1..Len(attempts) : attempts[i].id = observationIds[i]
            /\ failed = Cardinality(Absent(attempts))
            /\ deleted + failed = Len(attempts)
            /\ ENABLED (ExecStep \/ ExecReturn))
    /\ [][(pc = "loop" /\ pc' # "loop") =>
            /\ Len(attempts) = Len(observationIds)
            /\ result' = [status |-> "ok", deleted |-> deleted, failed |-> failed]
            /\ failed = Cardinality(Absent(attempts))
            /\ deleted + failed = Len(observationIds)]_vars

\* the loop of an execute is over, its first attempt failed and its second
\* attempt deleted a row
C1_Witness ==
    /\ pc = "loop"
    /\ idx > Len(observationIds)
    /\ Len(attempts) = 2
    /\ ~attempts[1].present /\ attempts[2].present
    /\ deleted = 1 /\ failed = 1

\* C2: whatever the other writers do between analyze and execute and
\* between two point deletes, a pass of execute's loop removes no row
\* whose identifier is outside the passed identifiers, adds and changes
\* none, and counts an identifier that is no longer there as a failure.
C2_ExecuteTouchesOnlyPassedIds ==
    [][(pc = "loop" /\ pc' = "loop" /\ idx' # idx) =>
          /\ store' \subseteq store
          /\ \A o \in store : o.id \notin Range(observationIds) => o \in store'
          /\ \A o \in store \ store' : o.id = observationIds[idx]
          /\ observationIds[idx] \notin Ids(store) =>
                (failed' = failed + 1 /\ deleted' = deleted /\ store' = store)
          /\ observationIds[idx] \in Ids(store) =>
                (deleted' = deleted + 1 /\ failed' = failed)]_vars

\* the loop of an execute of the two candidates of an analysis is over: one
\* had been deleted by another writer in between and was counted as a
\* failure, and a row that was not analysed is still in the table
C2_Witness ==
    /\ pc = "loop"
    /\ idx > Len(observationIds)
    /\ analysis.status = "ok"
    /\ Len(analysis.candidates) = 2
    /\ Range(observationIds) = {analysis.candidates[i].id : i \in 1..2}
    /\ \E i \in 1..Len(attempts) : ~attempts[i].present /\ attempts[i].id \in gone
    /\ \E i \in 1..Len(attempts) : attempts[i].present
    /\ \E o \in store : o.id \notin {analysis.scan[i].id : i \in 1..Len(analysis.scan)}
    /\ deleted = 1 /\ failed = 1

(***************************************************************************)
(* Properties of analyze (checked under SpecAnalyze, where the table is    *)
(* the one analyze read).                                                  *)
(***************************************************************************)
Analysed == analysis.status = "ok"
CandidateIds == {analysis.candidates[j].id : j \in 1..Len(analysis.candidates)}
MaxAgeMsOf(a) == a.opts.maxAge * DayMs
\* the position in the scan of the row with identifier id
ScanPos(id) == CHOOSE i \in 1..Len(analysis.scan) : analysis.scan[i].id = id
\* the positions in the scan of the rows that scored below minScore
BelowThreshold ==
    {i \in 1..Len(analysis.scan) :
        /\ analysis.scores[i].k = "num"
        /\ analysis.scores[i].n * 100 < analysis.opts.minScore * ScoreDen(MaxAgeMsOf(analysis))}
Quota == Max(1, (analysis.totalObservations * analysis.opts.targetReduction) \div 100)

\* C3: no observation whose score is at least minScore is a candidate,
\* whatever its age.
C3_NoCandidateAtOrAboveMinScore ==
    Analysed =>
        \A o \in store :
            LET sc == calculateImportanceScore(o, analysis.now, MaxAgeMsOf(analysis))
            IN  (sc.k = "num"
                 /\ sc.n * 100 >= analysis.opts.minScore * ScoreDen(MaxAgeMsOf(analysis)))
                => o.id \notin CandidateIds

\* analyze scanned a row older than maxAge that scores exactly minScore and
\* left it out although the quota was not reached
C3_Witness ==
    /\ Analysed
    /\ Len(analysis.candidates) >= 1
    /\ Len(analysis.candidates) < Quota
    /\ \E i \in 1..Len(analysis.scan) :
          /\ analysis.scores[i].k = "num"
          /\ analysis.scores[i].n * 100
                = analysis.opts.minScore * ScoreDen(MaxAgeMsOf(analysis))
          /\ analysis.now - analysis.scan[i].created_at_epoch > MaxAgeMsOf(analysis)
          /\ analysis.scan[i].id \notin CandidateIds

\* C4: every candidate was created strictly more than minAge before the
\* analyze call and belongs to the requested project when one is given; an
\* observation at most minAge old is never a candidate.
C4_CandidatesOlderThanMinAge ==
    Analysed =>
        /\ \A j \in 1..Len(analysis.candidates) :
              LET c == analysis.candidates[j]
              IN  /\ analysis.now - c.created_at_epoch > analysis.opts.minAge * DayMs
                  /\ analysis.opts.project # "" => c.project = analysis.opts.project
                  /\ \E o \in store :
                        /\ o.id = c.id /\ o.project = c.project
                        /\ o.created_at_epoch = c.created_at_epoch
        /\ \A o \in store :
              analysis.now - o.created_at_epoch <= analysis.opts.minAge * DayMs
              => o.id \notin CandidateIds

\* analyze left out a low-scoring row created exactly minAge ago although
\* the quota was not reached
C4_Witness ==
    /\ Analysed
    /\ Len(analysis.candidates) >= 1
    /\ Len(analysis.candidates) < Quota
    /\ \E o \in store :
          LET sc == calculateImportanceScore(o, analysis.now, MaxAgeMsOf(analysis))
          IN  /\ analysis.now - o.created_at_epoch = analysis.opts.minAge * DayMs
              /\ analysis.opts.project # "" => o.project = analysis.opts.project
              /\ sc.k = "num"
              /\ sc.n * 100 < analysis.opts.minScore * ScoreDen(MaxAgeMsOf(analysis))
              /\ o.id \notin CandidateIds

\* C5: the candidate list is ascending by score with ties in scan order
\* (the scan is by creation time, oldest first), it is the prefix of the
\* list so sorted of the eligible rows below minScore, and its length is
\* min(number of those rows, max(1, floor(totalObservations * targetReduction))).
C5_SortedPrefixOfQuotaLength ==
    Analysed =>
        LET cs == analysis.candidates
            before(s1, p1, s2, p2) == s1 < s2 \/ (s1 = s2 /\ p1 < p2)
        IN  /\ \A i, j \in 1..Len(analysis.scan) :
                  i < j => analysis.scan[i].created_at_epoch
                             <= analysis.scan[j].created_at_epoch
            /\ \A j \in 1..Len(cs) :
                  /\ \E i \in BelowThreshold : analysis.scan[i].id = cs[j].id
                  /\ cs[j].score = analysis.scores[ScanPos(cs[j].id)].n
            /\ \A i, j \in 1..Len(cs) :
                  i < j => before(cs[i].score, ScanPos(cs[i].id),
                                  cs[j].score, ScanPos(cs[j].id))
            /\ \A i \in BelowThreshold :
                  analysis.scan[i].id \notin CandidateIds =>
                      \A j \in 1..Len(cs) :
                          before(cs[j].score, ScanPos(cs[j].id), analysis.scores[i].n, i)
            /\ Len(cs) = Min(Cardinality(BelowThreshold), Quota)

\* analyze returned two candidates of equal score and dropped a third row
\* below minScore to keep to the quota
C5_Witness ==
    /\ Analysed
    /\ Len(analysis.candidates) = 2
    /\ analysis.candidates[1].score = analysis.candidates[2].score
    /\ Cardinality(BelowThreshold) > Quota

RECURSIVE TokensOf(_, _)
TokensOf(cs, n) == IF n = 0 THEN 0 ELSE cs[n].tokenCount + TokensOf(cs, n - 1)

\* C10: observationsToRemove is the length of the returned candidate list
\* and totalTokensSaved is the sum of tokenCount over the returned
\* candidates, the candidates dropped by the truncation not counted.
C10_TotalsMatchReturnedCandidates ==
    Analysed =>
        /\ analysis.observationsToRemove = Len(analysis.candidates)
        /\ analysis.totalTokensSaved
             = TokensOf(analysis.candidates, Len(analysis.candidates))
        /\ \A j \in 1..Len(analysis.candidates) :
              \E o \in store : /\ o.id = analysis.candidates[j].id
                                /\ analysis.candidates[j].tokenCount = estimateTokens(o)

\* analyze dropped a candidate with a positive token estimate and returned
\* a positive total
C10_Witness ==
    /\ Analysed
    /\ Len(analysis.candidates) < Cardinality(BelowThreshold)
    /\ analysis.totalTokensSaved > 0
    /\ \E i \in BelowThreshold :
          /\ analysis.scan[i].id \notin CandidateIds
          /\ estimateTokens(analysis.scan[i]) > 0

\* C6: the importance score computed for any observation is a number in
\* [0,1], for every category, age, tag field and narrative/facts size.
C6_ScoreInUnitInterval ==
    Analysed =>
        \A i \in 1..Len(analysis.scan) :
            /\ analysis.scores[i].k = "num"
            /\ analysis.scores[i].n >= 0
            /\ analysis.scores[i].n <= ScoreDen(MaxAgeMsOf(analysis))

\* a column that does not parse, read as absent
Repaired(o) ==
    [o EXCEPT !.concepts = IF @.parse = "error" THEN NullJson ELSE @,
              !.facts = IF @.parse = "error" THEN NullJson ELSE @]
Malformed(o) == o.concepts.parse = "error" \/ o.facts.parse = "error"
Scored(a) == [j \in 1..Len(a.candidates) |-> <<a.candidates[j].id, a.candidates[j].score>>]

\* C7: when a scanned observation has an unparseable concepts or facts
\* field, analyze still returns a complete analysis, whose candidates and
\* scores are those it returns when that field is absent.
C7_MalformedFieldsSkipped ==
    (analysis.status # "none"
     /\ \E i \in 1..Len(analysis.scan) : Malformed(analysis.scan[i]))
    => /\ analysis.status = "ok"
       /\ LET ref == analyze({Repaired(o) : o \in store},
                             [i \in 1..Len(analysis.scan) |-> Repaired(analysis.scan[i])],
                             analysis.now, analysis.opts)
          IN  /\ Scored(analysis) = Scored(ref)
              /\ analysis.totalObservations = ref.totalObservations
              /\ analysis.observationsToRemove = ref.observationsToRemove

(***************************************************************************)
(* Properties of the execute request (checked under Spec).                 *)
(***************************************************************************)

\* C8: an execute with mode summarize that removed observations returns
\* with a summary record written for them: it is not a plain deletion.
C8_SummarizeLeavesSummary ==
    [][(pc = "loop" /\ pc' # "loop" /\ mode = "summarize" /\ deleted > 0) =>
          \E sm \in summaries' :
              {attempts[i].id : i \in {j \in 1..Len(attempts) : attempts[j].present}}
                 \subseteq sm.of]_vars

\* C9: an execute with an empty identifier set is rejected: it does not
\* return a normal result.
C9_EmptyIdsRejected ==
    [][(pc = "loop" /\ pc' # "loop" /\ observationIds = <<>>) =>
          result'.status = "rejected"]_vars

(***************************************************************************)
(* Further properties of analyze (checked under SpecAnalyze).              *)
(***************************************************************************)
\* the rows in the scope of the analysis: those of its project, or all
InScope ==
    {o \in store : analysis.opts.project # "" => o.project = analysis.opts.project}

\* C11: totalObservations is the number of all observations in scope (of
\* the project, or of the whole table when none is given), those younger
\* than minAge and those scoring at least minScore included, and the quota
\* is max(1, floor(that number * targetReduction)).
C11_TotalIsFullCountInScope ==
    Analysed =>
        /\ analysis.totalObservations = Cardinality(InScope)
        /\ Len(analysis.candidates)
             = Min(Cardinality(BelowThreshold),
                   Max(1, (Cardinality(InScope) * analysis.opts.targetReduction) \div 100))

\* analyze returned more candidates than the eligible rows alone would
\* allow: a row in scope was too young to be scanned and still counted
C11_Witness ==
    /\ Analysed
    /\ \E o \in InScope :
          analysis.now - o.created_at_epoch <= analysis.opts.minAge * DayMs
    /\ Len(analysis.scan) < analysis.totalObservations
    /\ Len(analysis.candidates)
         > Max(1, (Len(analysis.scan) * analysis.opts.targetReduction) \div 100)

\* the weight the tag table gives a tag, unknown tags 0.5 (in tenths)
TagWeight(c) == IF c \in DOMAIN CONCEPT_WEIGHTS THEN CONCEPT_WEIGHTS[c] ELSE 5
RECURSIVE MaxTagWeight(_)
MaxTagWeight(items) ==
    IF Len(items) = 1 THEN TagWeight(items[1])
    ELSE Max(TagWeight(Head(items)), MaxTagWeight(Tail(items)))
NoTags(o) == o.concepts.null \/ (o.concepts.parse = "list" /\ o.concepts.items = <<>>)

\* C12: the tag adjustment is (maxWeight - 0.5) * 0.2 over the tags of a
\* non-empty list, unknown tags weighing 0.5; an observation whose concepts
\* are absent or an empty list gets no adjustment and scores what it
\* scores with the tag step skipped.
C12_TagAdjustmentOnlyForTags ==
    Analysed =>
        \A i \in 1..Len(analysis.scan) :
            LET o == analysis.scan[i]
                m == MaxAgeMsOf(analysis)
            IN  /\ NoTags(o) =>
                      /\ ConceptTerm(o.concepts, m) = Num(0)
                      /\ analysis.scores[i]
                           = calculateImportanceScore([o EXCEPT !.concepts = NullJson],
                                                      analysis.now, m)
                /\ (o.concepts.parse = "list" /\ o.concepts.items # <<>>) =>
                      ConceptTerm(o.concepts, m)
                        = Num((MaxTagWeight(o.concepts.items) - 5) * 2 * 200 * m)

\* the six categories of the table
KnownTypes == {"decision", "bugfix", "feature", "refactor", "discovery", "change"}

\* C13: every category outside the six of the table weighs 0.5 in scoring
\* and in the reasons (the reason "Low-priority type" is given), and the
\* lookup yields a number for every category.
C13_UnknownTypeWeighsHalf ==
    Analysed =>
        \A i \in 1..Len(analysis.scan) :
            LET o == analysis.scan[i]
            IN  /\ typeWeight(o.type).k = "num"
                /\ o.type \notin KnownTypes =>
                      /\ typeWeight(o.type) = Num(5)
                      /\ \E j \in 1..Len(generateReasons(o, analysis.scores[i], analysis.now,
                                                          MaxAgeMsOf(analysis))) :
                            generateReasons(o, analysis.scores[i], analysis.now,
                                            MaxAgeMsOf(analysis))[j].reason
                              = "Low-priority type"

\* the reasons the four conditions give a candidate c made of the row o
ExpectedReasons(c, o) ==
    LET N == (analysis.now - c.created_at_epoch) \div DayMs
        weight == IF c.type \in KnownTypes THEN TYPE_WEIGHTS[c.type] ELSE 5
        length == IF o.narrative.null THEN 0 ELSE o.narrative.len
        when(cond, r) == IF cond THEN <<r>> ELSE <<>>
    IN  when(N > 30, [reason |-> "days old", n |-> N])
        \o when(weight < 6, [reason |-> "Low-priority type", n |-> 0])
        \o when(length < 50, [reason |-> "Minimal content", n |-> 0])
        \o when(c.score * 5 < ScoreDen(MaxAgeMsOf(analysis)),
                [reason |-> "Very low importance score", n |-> 0])

\* C14: the reasons of a candidate are, in this order and each on its own
\* condition: "<N> days old" iff its age in whole days N exceeds 30,
\* "Low-priority type" iff its category weight is below 0.6, "Minimal
\* content" iff its narrative is shorter than 50 (absent: 0), "Very low
\* importance score" iff its score is below 0.2; a candidate may have none.
C14_ReasonsMatchConditions ==
    Analysed =>
        \A j \in 1..Len(analysis.candidates) :
            \E o \in store :
                /\ o.id = analysis.candidates[j].id
                /\ analysis.candidates[j].reasons
                     = ExpectedReasons(analysis.candidates[j], o)

\* analyze returned a candidate exactly 30 whole days old with no reason,
\* one with three reasons and one with the reason of a very low score
C14_Witness ==
    /\ Analysed
    /\ \E j \in 1..Len(analysis.candidates) :
          /\ analysis.candidates[j].reasons = <<>>
          /\ (analysis.now - analysis.candidates[j].created_at_epoch) \div DayMs = 30
    /\ \E j \in 1..Len(analysis.candidates) : Len(analysis.candidates[j].reasons) = 3
    /\ \E j \in 1..Len(analysis.candidates) :
          \E k \in 1..Len(analysis.candidates[j].reasons) :
              analysis.candidates[j].reasons[k].reason = "Very low importance score"

\* the five fields estimateTokens reads, in its order
TokenFields(o) == <<o.title, o.subtitle, o.narrative, o.facts, o.concepts>>
\* the fields that are there: neither null nor the empty string
PresentFields(o) == SelectSeq(TokenFields(o), LAMBDA f : ~f.null /\ f.len > 0)
RECURSIVE TotalLen(_)
TotalLen(fs) == IF fs = <<>> THEN 0 ELSE Head(fs).len + TotalLen(Tail(fs))
\* the length of the fields joined by single spaces
JoinedLength(o) ==
    LET fs == PresentFields(o)
    IN  IF fs = <<>> THEN 0 ELSE TotalLen(fs) + Len(fs) - 1
\* the length of the fields each followed by a space
SpacedLength(o) == TotalLen(PresentFields(o)) + Len(PresentFields(o))
Ceil4(n) == (n + 3) \div 4

\* C16 as claimed: the token estimate is ceil(characterCount / 4),
\* characterCount the length of the present fields joined by single
\* spaces, nothing counted after the last field; no present field: 0.
C16_TokensOfJoinedFields ==
    Analysed =>
        \A j \in 1..Len(analysis.candidates) :
            \E o \in store :
                /\ o.id = analysis.candidates[j].id
                /\ analysis.candidates[j].tokenCount = Ceil4(JoinedLength(o))

\* C16 as amended: the token estimate is ceil(characterCount / 4),
\* characterCount the sum over the present (non-null, non-empty) fields of
\* the field's length plus one, the space after the last field counted;
\* no present field: 0.
C16_TokensOfFieldsEachWithSpace ==
    Analysed =>
        \A j \in 1..Len(analysis.candidates) :
            \E o \in store :
                /\ o.id = analysis.candidates[j].id
                /\ analysis.candidates[j].tokenCount = Ceil4(SpacedLength(o))
                /\ PresentFields(o) = <<>> => analysis.candidates[j].tokenCount = 0

\* analyze returned a candidate of two present fields whose joined length
\* is a multiple of 4, estimated one token above the joined text, and a
\* candidate with no present field, estimated 0
C16_Witness ==
    /\ Analysed
    /\ \E j \in 1..Len(analysis.candidates) : \E o \in store :
          /\ o.id = analysis.candidates[j].id
          /\ Len(PresentFields(o)) = 2
          /\ JoinedLength(o) % 4 = 0
          /\ analysis.candidates[j].tokenCount = Ceil4(JoinedLength(o)) + 1
    /\ \E j \in 1..Len(analysis.candidates) : \E o \in store :
          /\ o.id = analysis.candidates[j].id
          /\ PresentFields(o) = <<>>
          /\ ~o.title.null
          /\ analysis.candidates[j].tokenCount = 0

(***************************************************************************)
(* The shrink dialog's reading of a candidate's creation time              *)
(* (useProjectExclusion.ts, formatAge and ShrinkModal.selectOlderThan).    *)
(* Both take Date.now() / 1000 and compare it with created_at_epoch as it  *)
(* is: with nowMs a whole number of seconds,                               *)
(*     created_at_epoch < floor(nowMs / 1000) - days * 86400               *)
(* is  created_at_epoch * 1000 < nowMs - days * DayMs.                     *)
(***************************************************************************)
MsPerSecond == 1000

\* formatAge(epochSeconds) at Date.now() = nowMs: the text, as [text, n]
formatAge(epochSeconds, nowMs) ==
    LET days == (nowMs - epochSeconds * MsPerSecond) \div DayMs
    IN  IF days = 0 THEN [text |-> "today", n |-> 0]
        ELSE IF days = 1 THEN [text |-> "1 day ago", n |-> 1]
        ELSE IF days < 30 THEN [text |-> "days ago", n |-> days]
        ELSE IF days < 60 THEN [text |-> "1 month ago", n |-> 1]
        ELSE [text |-> "months ago", n |-> days \div 30]

\* the filter of selectOlderThan(days) at Date.now() = nowMs
selectOlderThan(candidates, days, nowMs) ==
    {candidates[j].id : j \in {k \in 1..Len(candidates) :
        candidates[k].created_at_epoch * MsPerSecond < nowMs - days * DayMs}}

\* the buttons >30d, >60d, >90d
FilterDays == {30, 60, 90}

\* the text for an age of days whole days
AgeText(days) ==
    CASE days = 0 -> [text |-> "today", n |-> 0]
      [] days = 1 -> [text |-> "1 day ago", n |-> 1]
      [] days > 1 /\ days < 30 -> [text |-> "days ago", n |-> days]
      [] days >= 30 /\ days < 60 -> [text |-> "1 month ago", n |-> 1]
      [] OTHER -> [text |-> "months ago", n |-> days \div 30]

\* C17: the analyzer and the dialog read created_at_epoch in the same
\* unit: for every candidate of an analysis and every N, selectOlderThan(N)
\* selects exactly the candidates whose age as the analyzer computes it
\* (now - created_at_epoch) exceeds N days, and formatAge shows that age.
C17_SameUnitForCreationTime ==
    Analysed =>
        /\ \A N \in FilterDays :
              selectOlderThan(analysis.candidates, N, now)
                = {analysis.candidates[j].id : j \in {k \in 1..Len(analysis.candidates) :
                     analysis.now - analysis.candidates[k].created_at_epoch > N * DayMs}}
        /\ \A j \in 1..Len(analysis.candidates) :
              formatAge(analysis.candidates[j].created_at_epoch, now)
                = AgeText((analysis.now - analysis.candidates[j].created_at_epoch)
                          \div DayMs)

(***************************************************************************)
(* The shrink dialog (ShrinkModal) and the App state it hangs on.  The     *)
(* component stays mounted while closed (it renders null), so its state    *)
(* outlives an opening; a button acts only while it is rendered.  The      *)
(* worker's routes shrink/analyze and shrink/execute hand the request to   *)
(* analyze and executeShrink and send back what they return.               *)
(***************************************************************************)
\* requests one run of the dialog sends
MaxRequests == 2

\* the options of the Header's project filter
FilterOptions == {"", "p1"}
\* positions of the two sliders
SliderReductions == {30, 70}
SliderMinAges == {7, 30}

serverVars == <<coreVars, execVars>>
restVars == <<exclusionVars, timelineVars>>

Rendered(step) == shrinkModalOpen /\ modal.step = step
\* step === 'analysis' && analysis
AnalysisRendered == Rendered("analysis") /\ modal.analysis # NoAnalysis

CandidateIdsOf(a) ==
    IF a.status = "ok" THEN {a.candidates[j].id : j \in 1..Len(a.candidates)} ELSE {}

\* Array.from(selectedIds): the identifiers in the set's insertion order
Orders(S) ==
    {q \in [1..Cardinality(S) -> S] : \A i, j \in 1..Cardinality(S) : i # j => q[i] # q[j]}

\* the options the route passes to analyze for a request body
OptionsOfRequest(req) ==
    [DefaultOptions EXCEPT !.project = req.project,
                           !.targetReduction = req.targetReduction,
                           !.minAge = req.minAge]

\* onShrinkToggle: setShrinkModalOpen(true), and the effect on isOpen
OpenShrink ==
    /\ ~shrinkModalOpen
    /\ shrinkModalOpen' = TRUE
    /\ modal' = [modal EXCEPT !.step = "config", !.analysis = NoAnalysis,
                              !.selectedIds = {}, !.result = NoResult,
                              !.error = "null"]
    /\ hist' = [hist EXCEPT !.startedHere = FALSE]
    /\ UNCHANGED <<currentFilter, net, sentCount, serverVars, restVars>>

\* onClose: the close button, Esc, the backdrop, Cancel, Done
CloseShrink ==
    /\ shrinkModalOpen
    /\ shrinkModalOpen' = FALSE
    /\ UNCHANGED <<currentFilter, modal, net, sentCount, hist, serverVars, restVars>>

\* onFilterChange: the Header's select, which the open dialog's backdrop
\* covers
SetFilter(p) ==
    /\ ~shrinkModalOpen
    /\ p # currentFilter
    /\ currentFilter' = p
    /\ UNCHANGED <<shrinkModalOpen, modal, net, sentCount, hist, serverVars, restVars>>

SetMode(m) ==
    /\ Rendered("config")
    /\ modal' = [modal EXCEPT !.mode = m]
    /\ UNCHANGED <<shrinkModalOpen, currentFilter, net, sentCount, hist, serverVars,
                   restVars>>

SetTargetReduction(v) ==
    /\ Rendered("config")
    /\ modal' = [modal EXCEPT !.targetReduction = v]
    /\ UNCHANGED <<shrinkModalOpen, currentFilter, net, sentCount, hist, serverVars,
                   restVars>>

SetMinAge(v) ==
    /\ Rendered("config")
    /\ modal' = [modal EXCEPT !.minAge = v]
    /\ UNCHANGED <<shrinkModalOpen, currentFilter, net, sentCount, hist, serverVars,
                   restVars>>

\* handleAnalyze up to the await of fetch
HandleAnalyze ==
    /\ Rendered("config")
    /\ ~modal.isLoading
    /\ sentCount < MaxRequests
    /\ modal' = [modal EXCEPT !.isLoading = TRUE, !.error = "null"]
    /\ net' = net \cup {[n |-> sentCount + 1, kind |-> "analyze", stage |-> "request",
                         project |-> currentFilter,
                         targetReduction |-> modal.targetReduction,
                         minAge |-> modal.minAge]}
    /\ sentCount' = sentCount + 1
    /\ hist' = [hist EXCEPT !.startedHere = TRUE]
    /\ UNCHANGED <<shrinkModalOpen, currentFilter, serverVars, restVars>>

\* the route shrink/analyze
ServeAnalyze(req) ==
    /\ req \in net /\ req.kind = "analyze" /\ req.stage = "request"
    /\ Analyze(OptionsOfRequest(req))
    /\ net' = (net \ {req})
                \cup {[n |-> req.n, kind |-> "analyze", stage |-> "response",
                       ok |-> analysis'.status = "ok", data |-> analysis']}

\* a request that fails on its way or in the worker
FailRequest(req) ==
    /\ req \in net /\ req.stage = "request"
    /\ net' = (net \ {req})
                \cup {[n |-> req.n, kind |-> req.kind, stage |-> "response",
                       ok |-> FALSE, data |-> NoResult]}
    /\ UNCHANGED <<dialogVars, serverVars, restVars>>

\* handleAnalyze after the await
ReceiveAnalyze(resp) ==
    /\ resp \in net /\ resp.kind = "analyze" /\ resp.stage = "response"
    /\ net' = net \ {resp}
    /\ IF resp.ok
       THEN /\ modal' = [modal EXCEPT !.analysis = resp.data,
                                      !.selectedIds = CandidateIdsOf(resp.data),
                                      !.step = "analysis", !.isLoading = FALSE]
            /\ hist' = [hist EXCEPT !.lastReceived = resp.data]
       ELSE /\ modal' = [modal EXCEPT !.error = "Analysis failed", !.isLoading = FALSE]
            /\ hist' = hist
    /\ UNCHANGED <<shrinkModalOpen, currentFilter, sentCount, serverVars, restVars>>

\* the Back button
Back ==
    /\ AnalysisRendered
    /\ modal' = [modal EXCEPT !.step = "config"]
    /\ UNCHANGED <<shrinkModalOpen, currentFilter, net, sentCount, hist, serverVars,
                   restVars>>

toggleCandidate(id) ==
    /\ AnalysisRendered
    /\ id \in CandidateIdsOf(modal.analysis)
    /\ modal' = [modal EXCEPT !.selectedIds =
                    IF id \in @ THEN @ \ {id} ELSE @ \cup {id}]
    /\ UNCHANGED <<shrinkModalOpen, currentFilter, net, sentCount, hist, serverVars,
                   restVars>>

selectAll ==
    /\ AnalysisRendered
    /\ modal' = [modal EXCEPT !.selectedIds = CandidateIdsOf(modal.analysis)]
    /\ UNCHANGED <<shrinkModalOpen, currentFilter, net, sentCount, hist, serverVars,
                   restVars>>

selectNone ==
    /\ AnalysisRendered
    /\ modal' = [modal EXCEPT !.selectedIds = {}]
    /\ UNCHANGED <<shrinkModalOpen, currentFilter, net, sentCount, hist, serverVars,
                   restVars>>

\* the buttons >30d, >60d, >90d
SelectOlderThan(days) ==
    /\ AnalysisRendered
    /\ modal' = [modal EXCEPT !.selectedIds =
                    selectOlderThan(modal.analysis.candidates, days, now)]
    /\ UNCHANGED <<shrinkModalOpen, currentFilter, net, sentCount, hist, serverVars,
                   restVars>>

\* handleExecute without its test of selectedIds.size, behind a button
\* that is never disabled
HandleExecute_NoGuard ==
    /\ AnalysisRendered
    /\ sentCount < MaxRequests
    /\ modal' = [modal EXCEPT !.step = "executing", !.error = "null"]
    /\ \E q \in Orders(modal.selectedIds) :
          net' = net \cup {[n |-> sentCount + 1, kind |-> "execute",
                            stage |-> "request", observationIds |-> q,
                            mode |-> modal.mode]}
    /\ sentCount' = sentCount + 1
    /\ UNCHANGED <<shrinkModalOpen, currentFilter, hist, serverVars, restVars>>

\* handleExecute up to the await of fetch; the button is disabled, and the
\* handler returns, when nothing is selected
HandleExecute ==
    /\ AnalysisRendered
    /\ modal.selectedIds # {}
    /\ sentCount < MaxRequests
    /\ modal' = [modal EXCEPT !.step = "executing", !.error = "null"]
    /\ \E q \in Orders(modal.selectedIds) :
          net' = net \cup {[n |-> sentCount + 1, kind |-> "execute",
                            stage |-> "request", observationIds |-> q,
                            mode |-> modal.mode]}
    /\ sentCount' = sentCount + 1
    /\ UNCHANGED <<shrinkModalOpen, currentFilter, hist, serverVars, restVars>>

\* the route shrink/execute calls executeShrink with the identifiers
ServeExecute(req) ==
    /\ req \in net /\ req.kind = "execute" /\ req.stage = "request"
    /\ ExecStart(req.observationIds, req.mode)
    /\ net' = (net \ {req}) \cup {[req EXCEPT !.stage = "serving"]}

\* and sends back what it returned
ReplyExecute ==
    /\ ExecReturn
    /\ \E req \in net :
          /\ req.stage = "serving"
          /\ net' = (net \ {req})
                      \cup {[n |-> req.n, kind |-> "execute", stage |-> "response",
                             ok |-> TRUE, data |-> result']}

\* handleExecute after the await
ReceiveExecute(resp) ==
    /\ resp \in net /\ resp.kind = "execute" /\ resp.stage = "response"
    /\ net' = net \ {resp}
    /\ IF resp.ok
       THEN modal' = [modal EXCEPT !.result = [deleted |-> resp.data.deleted,
                                               failed |-> resp.data.failed,
                                               summarized |-> 0],
                                   !.step = "complete"]
       ELSE modal' = [modal EXCEPT !.error = "Shrink execution failed",
                                   !.step = "analysis"]
    /\ UNCHANGED <<shrinkModalOpen, currentFilter, sentCount, hist, serverVars, restVars>>

\* the table of the dialog's runs: an old change and an old empty
\* discovery of p1, an old discovery of p2
DialogEntries == <<1, 9, 4>>

InitDialog ==
    /\ now = 401 * DayMs
    /\ store = {Row(Catalog[DialogEntries[i]], i, now) : i \in 1..Len(DialogEntries)}
    /\ nextId = Len(DialogEntries) + 1
    /\ analysis = NoAnalysis /\ summaries = {} /\ gone = {}
    /\ ExecIdle /\ result = NoResult
    /\ DialogIdle /\ ExclusionIdle /\ TimelineIdle

NextDialog ==
    \/ OpenShrink
    \/ CloseShrink
    \/ \E p \in FilterOptions : SetFilter(p)
    \/ \E m \in Modes : SetMode(m)
    \/ \E v \in SliderReductions : SetTargetReduction(v)
    \/ \E v \in SliderMinAges : SetMinAge(v)
    \/ HandleAnalyze
    \/ \E req \in net : ServeAnalyze(req)
    \/ \E req \in net : FailRequest(req)
    \/ \E resp \in net : ReceiveAnalyze(resp)
    \/ Back
    \/ \E id \in CandidateIdsOf(modal.analysis) : toggleCandidate(id)
    \/ selectAll
    \/ selectNone
    \/ \E days \in FilterDays : SelectOlderThan(days)
    \/ HandleExecute
    \/ \E req \in net : ServeExecute(req)
    \/ ExecStep
    \/ ReplyExecute
    \/ \E resp \in net : ReceiveExecute(resp)

SpecDialog == InitDialog /\ [][NextDialog]_vars

(***************************************************************************)
(* Properties of the shrink dialog (checked under SpecDialog).             *)
(***************************************************************************)
ExecuteRequests(msgs) == {m \in msgs : m.kind = "execute" /\ m.stage = "request"}

C20_StaleResponseLeavesOpeningAlone ==
    /\ (shrinkModalOpen /\ ~hist.startedHere) =>
          /\ modal.step = "config"
          /\ modal.analysis = NoAnalysis
          /\ modal.selectedIds = {}
          /\ modal.result = NoResult
    /\ AnalysisRendered => modal.analysis.opts.project = currentFilter

(***************************************************************************)
(* Project exclusion: the Projects modal with useProjectExclusion          *)
(* (useProjectExclusion.ts:5-51, ProjectsModal.tsx, App) and the check     *)
(* observation collection makes, isProjectExcluded (part_002).             *)
(* The setting CLAUDE_MEM_EXCLUDED_PROJECTS is kept as the sequence of     *)
(* the entries between its commas.                                         *)
(***************************************************************************)
\* the projects the viewer lists
ProjectNames == {"p1", "p2", "Web", "api"}

\* String.prototype.toLowerCase on the strings of the model
toLowerCase(str) ==
    CASE str = "Web" -> "web"
      [] str = " Web " -> " web "
      [] str = "API" -> "api"
      [] OTHER -> str

\* String.prototype.trim on the strings of the model
trim(str) ==
    CASE str = " " -> ""
      [] str = " Web " -> "Web"
      [] str = " web " -> "web"
      [] OTHER -> str

\* path.basename of a working directory, given as its components
basename(cwd) == cwd[Len(cwd)]

\* isProjectExcluded(cwd) with the settings file holding setting
isProjectExcluded(cwd, setting) ==
    LET project == basename(cwd)
        blank == setting = <<>> \/ (Len(setting) = 1 /\ trim(setting[1]) = "")
        excluded == {toLowerCase(trim(setting[i])) : i \in 1..Len(setting)} \ {""}
    IN  IF blank THEN FALSE ELSE toLowerCase(project) \in excluded

\* onProjectsToggle / onClose of the Projects modal
OpenProjects ==
    /\ ~projectsModalOpen
    /\ projectsModalOpen' = TRUE
    /\ UNCHANGED <<excludedProjects, localStorage, settings, net, dialogVars,
                   serverVars, timelineVars>>

CloseProjects ==
    /\ projectsModalOpen
    /\ projectsModalOpen' = FALSE
    /\ UNCHANGED <<excludedProjects, localStorage, settings, net, dialogVars,
                   serverVars, timelineVars>>

\* toggleProject(project) and the effect that stores the set
toggleProject(project) ==
    /\ projectsModalOpen
    /\ excludedProjects' = IF project \in excludedProjects
                           THEN excludedProjects \ {project}
                           ELSE excludedProjects \cup {project}
    /\ localStorage' = excludedProjects'
    /\ UNCHANGED <<projectsModalOpen, settings, net, dialogVars, serverVars,
                   timelineVars>>

\* enableAll() and the effect
enableAll ==
    /\ projectsModalOpen
    /\ excludedProjects' = {}
    /\ localStorage' = excludedProjects'
    /\ UNCHANGED <<projectsModalOpen, settings, net, dialogVars, serverVars,
                   timelineVars>>

\* disableAll(projects) and the effect
disableAll(projects) ==
    /\ projectsModalOpen
    /\ excludedProjects' = projects
    /\ localStorage' = excludedProjects'
    /\ UNCHANGED <<projectsModalOpen, settings, net, dialogVars, serverVars,
                   timelineVars>>

\* the settings file as it may be found
SettingChoices ==
    {<<>>, <<" ">>, <<"p2">>, <<" Web ", "p2">>, <<"API", "">>}

\* the settings file is written by its owner
EditSettings(setting) ==
    /\ setting # settings
    /\ settings' = setting
    /\ UNCHANGED <<projectsModalOpen, excludedProjects, localStorage, net, dialogVars,
                   serverVars, timelineVars>>

\* the hook is mounted: the set is read from localStorage
InitProjects ==
    /\ store = {} /\ nextId = 1 /\ now = 0
    /\ analysis = NoAnalysis /\ summaries = {} /\ gone = {}
    /\ ExecIdle /\ result = NoResult
    /\ DialogIdle /\ TimelineIdle
    /\ projectsModalOpen = FALSE
    /\ localStorage \in SUBSET ProjectNames
    /\ excludedProjects = localStorage
    /\ settings \in SettingChoices

NextProjects ==
    \/ OpenProjects
    \/ CloseProjects
    \/ \E project \in ProjectNames : toggleProject(project)
    \/ enableAll
    \/ disableAll(ProjectNames)
    \/ \E setting \in SettingChoices : EditSettings(setting)

SpecProjects == InitProjects /\ [][NextProjects]_vars

\* the working directory of a project
CwdOf(project) == <<"home", "user", project>>

\* C18: once a project is disabled in the Projects modal (toggleProject on
\* an enabled project, or disableAll) isProjectExcluded is true of a
\* working directory whose base name is the project, and once it is
\* enabled again (toggleProject, or enableAll) it is false.
C18_DisabledProjectIsExcluded ==
    [][\A project \in ProjectNames :
          /\ (project \notin excludedProjects /\ project \in excludedProjects')
                => isProjectExcluded(CwdOf(project), settings')
          /\ (project \in excludedProjects /\ project \notin excludedProjects')
                => ~isProjectExcluded(CwdOf(project), settings')]_vars

(***************************************************************************)
(* The timeline query of the retrieval service (SKILL.md, Step 2; spec     *)
(* 4.1).  The store's observations, sessions and prompts are one stream    *)
(* in chronological order, each item [kind, id, project, epoch].  What     *)
(* happens to the count a short side cannot supply is left open: each      *)
(* call either drops it or takes it from the other side.                   *)
(***************************************************************************)
\* items in the store
MaxItems == 4
\* the largest depth_before / depth_after asked for
MaxDepth == 2

ItemKinds == {"observation", "session", "prompt"}
StreamProjects == {"p1", "p2"}
TruncationPolicies == {"truncate", "backfill"}

\* the merged stream of a project, oldest first
ProjectStream(all, project) == SelectSeq(all, LAMBDA it : it.project = project)

\* the position of the item with identifier id in a stream, 0 if none
PositionOf(str, id) ==
    IF \E i \in 1..Len(str) : str[i].id = id
    THEN CHOOSE i \in 1..Len(str) : str[i].id = id
    ELSE 0

\* the window that cuts both sides to the shorter one
timeline_Symmetric(all, anchor, depth_before, depth_after, project, policy) ==
    LET str == ProjectStream(all, project)
        k == PositionOf(str, anchor)
        reach == Min(Min(depth_before, k - 1), Min(depth_after, Len(str) - k))
    IN  IF k = 0 THEN [status |-> "error"]
        ELSE [status |-> "ok", anchor |-> anchor, depth_before |-> depth_before,
              depth_after |-> depth_after, project |-> project,
              items |-> SubSeq(str, k - reach, k + reach)]

\* timeline(anchor, depth_before, depth_after, project)
timeline(all, anchor, depth_before, depth_after, project, policy) ==
    LET str == ProjectStream(all, project)
        k == PositionOf(str, anchor)
        before == Min(depth_before, k - 1)
        after == Min(depth_after, Len(str) - k)
        spareBefore == depth_before - before
        spareAfter == depth_after - after
        lo == IF policy = "backfill" THEN Max(1, k - before - spareAfter)
              ELSE k - before
        hi == IF policy = "backfill" THEN Min(Len(str), k + after + spareBefore)
              ELSE k + after
    IN  IF k = 0 THEN [status |-> "error"]
        ELSE [status |-> "ok", anchor |-> anchor, depth_before |-> depth_before,
              depth_after |-> depth_after, project |-> project,
              items |-> SubSeq(str, lo, hi)]

NoWindow == [status |-> "none"]

\* a timeline call
Timeline(anchor, depth_before, depth_after, project) ==
    /\ \E policy \in TruncationPolicies :
          window' = timeline(stream, anchor, depth_before, depth_after, project, policy)
    /\ UNCHANGED <<stream, net, dialogVars, serverVars, exclusionVars>>

\* the store holds up to MaxItems items of distinct times
InitTimeline ==
    /\ store = {} /\ nextId = 1 /\ now = 0
    /\ analysis = NoAnalysis /\ summaries = {} /\ gone = {}
    /\ ExecIdle /\ result = NoResult
    /\ DialogIdle /\ ExclusionIdle
    /\ \E n \in 0..MaxItems :
          \E kinds \in [1..n -> ItemKinds], projects \in [1..n -> StreamProjects] :
              stream = [i \in 1..n |-> [kind |-> kinds[i], id |-> i,
                                        project |-> projects[i], epoch |-> 10 * i]]
    /\ window = NoWindow

\* timeline is applied once to each store
NextTimeline ==
    /\ window = NoWindow
    /\ \E anchor \in 1..MaxItems, depth_before \in 0..MaxDepth,
          depth_after \in 0..MaxDepth, project \in StreamProjects :
          Timeline(anchor, depth_before, depth_after, project)

SpecTimeline == InitTimeline /\ [][NextTimeline]_vars

\* C15: timeline returns a run of the project's merged stream of
\* observations, sessions and prompts, in chronological order and with the
\* anchor in it; it has depth_before items before the anchor and
\* depth_after after it (depth_before + 1 + depth_after in all) when both
\* sides have that many, and when a side has fewer that side holds all
\* there is and the other side is not shortened.
C15_TimelineWindow ==
    window.status = "ok" =>
        LET str == SelectSeq(stream, LAMBDA it : it.project = window.project)
            its == window.items
            a == CHOOSE i \in 1..Len(its) : its[i].id = window.anchor
            k == CHOOSE i \in 1..Len(str) : str[i].id = window.anchor
            nBefore == a - 1
            nAfter == Len(its) - a
        IN  /\ \E i \in 1..Len(its) : its[i].id = window.anchor
            /\ \A i \in 1..Len(its) : its[i].project = window.project
            /\ \A i, j \in 1..Len(its) : i < j => its[i].epoch < its[j].epoch
            /\ its = SubSeq(str, k - nBefore, k + nAfter)
            /\ (k - 1 >= window.depth_before /\ Len(str) - k >= window.depth_after) =>
                  /\ nBefore = window.depth_before
                  /\ nAfter = window.depth_after
                  /\ Len(its) = window.depth_before + 1 + window.depth_after
            /\ k - 1 < window.depth_before => nBefore = k - 1
            /\ Len(str) - k < window.depth_after => nAfter = Len(str) - k
            /\ nBefore >= Min(window.depth_before, k - 1)
            /\ nAfter >= Min(window.depth_after, Len(str) - k)

\* a timeline of depth 2 before and 1 after around the second item of its
\* project, an observation between a session and a prompt, returned three
\* items: the one item before the anchor, the anchor and one item after
C15_Witness ==
    /\ window.status = "ok"
    /\ window.depth_before = 2 /\ window.depth_after = 1
    /\ Len(SelectSeq(stream, LAMBDA it : it.project = window.project)) >= 4
    /\ Len(window.items) = 3
    /\ window.items[1].kind = "session"
    /\ window.items[2].id = window.anchor
    /\ window.items[2].kind = "observation"
    /\ window.items[3].kind = "prompt"

=============================================================================
